---- MODULE Spec2Model ----
(***************************************************************************)
(* BitrateConstraint (video/adaptation/bitrate_constraint.cc): the         *)
(* adaptation constraint that blocks a resolution increase when the        *)
(* encoder's target bitrate is below the minimum start bitrate of the      *)
(* next resolution tier.                                                   *)
(*                                                                         *)
(* The object holds two optional fields, encoder_settings_ and             *)
(* encoder_target_bitrate_bps_, and a sequence checker.  Two handlers      *)
(* replace the fields, one const query reads them.  The model is of a      *)
(* build with RTC_DCHECK enabled, where a failed check ends the process.   *)
(***************************************************************************)
EXTENDS Integers, Sequences, FiniteSets, TLC

(***************************************************************************)
(* Bounds of the model.                                                    *)
(***************************************************************************)
\* Longest simulcast_layers list and longest codec stream list.  Stream i of
\* a codec has i pixels, so pixel counts are 1..MaxLayers.
MaxLayers == 2
\* Target bitrates are 0..MaxBitrate, minimum start bitrates 1..MaxBitrate.
MaxBitrate == 2
\* Threads / task queues that may call the object.
NumContexts == 2

(***************************************************************************)
(* absl::optional<T>: the empty sequence is nullopt, <<x>> holds x.        *)
(***************************************************************************)
nullopt == << >>
Some(x) == << x >>
has_value(o) == o # << >>
value(o) == o[1]
value_or(o, d) == IF has_value(o) THEN o[1] ELSE d
Optional(S) == {nullopt} \cup {Some(x) : x \in S}

SeqUpTo(S, n) == UNION {[1..k -> S] : k \in 0..n}

(***************************************************************************)
(* Value domains.                                                          *)
(***************************************************************************)
Contexts == 1..NumContexts
Pixels == 1..MaxLayers
\* Tabulated resolutions.  A 1-pixel stream has both tiers above it; a 2-pixel
\* stream has one tier of its own size and one above.
FrameSizes == {2, 3}
Bitrates == 0..MaxBitrate
MinStartBitrates == 1..MaxBitrate

\* VideoStream of VideoEncoderConfig::simulcast_layers: only `active` is read.
VideoStream == [active : BOOLEAN]
\* The streams of a VideoCodec, each with its active flag and width*height,
\* in ascending resolution: stream i has i pixels.
VideoCodec ==
    {[i \in 1..k |-> [active |-> a[i], pixels |-> i]] :
        a \in [1..MaxLayers -> BOOLEAN], k \in 0..MaxLayers}
\* VideoEncoder::ResolutionBitrateLimits: the two fields the constraint reads.
ResolutionBitrateLimits ==
    [frame_size_pixels : FrameSizes, min_start_bitrate_bps : MinStartBitrates]
\* EncoderInfo::resolution_bitrate_limits: at most one entry per frame size.
LimitTables ==
    {T \in SUBSET ResolutionBitrateLimits :
        \A a \in T, b \in T : a.frame_size_pixels = b.frame_size_pixels => a = b}

EncoderSettings ==
    [simulcast_layers : SeqUpTo(VideoStream, MaxLayers),
     video_codec : VideoCodec,
     resolution_bitrate_limits : LimitTables]

\* VideoSourceRestrictions: only max_pixels_per_frame matters to the query.
VideoSourceRestrictions == [max_pixels_per_frame : Optional(Pixels)]
\* VideoStreamInputState: the single active stream's pixel count, if known.
VideoStreamInputState == [single_active_stream_pixels : Optional(Pixels)]

VARIABLES
    encoder_settings_,            \* absl::optional<EncoderSettings>
    encoder_target_bitrate_bps_,  \* absl::optional<uint32_t>
    sequence_checker_,            \* 0 = detached, else the owning context
    status,                       \* "running" | "wrong_sequence" | "dcheck_failed" | "crashed"
    last_settings_arg,            \* history: argument of the latest settings update that ran
    last_bitrate_arg,             \* history: argument of the latest bitrate update that ran
    call                          \* the latest call: entry point, caller, arguments, outcome

vars == << encoder_settings_, encoder_target_bitrate_bps_, sequence_checker_,
           status, last_settings_arg, last_bitrate_arg, call >>

Detached == 0

(***************************************************************************)
(* Collaborators of the constraint.                                        *)
(***************************************************************************)

\* DidIncreaseResolution(before, after): `after` is strictly less restrictive
\* on resolution than `before`; an absent max_pixels_per_frame is unrestricted.
DidIncreaseResolution(restrictions_before, restrictions_after) ==
    IF ~has_value(restrictions_before.max_pixels_per_frame) THEN FALSE
    ELSE IF ~has_value(restrictions_after.max_pixels_per_frame) THEN TRUE
    ELSE value(restrictions_after.max_pixels_per_frame)
            > value(restrictions_before.max_pixels_per_frame)

\* VideoStreamEncoderResourceManager::GetSingleActiveLayerPixels(codec): the
\* pixel count of the one active stream, unknown unless exactly one is active.
GetSingleActiveLayerPixels(video_codec) ==
    LET active == {i \in DOMAIN video_codec : video_codec[i].active}
    IN  IF Cardinality(active) = 1
        THEN Some(video_codec[CHOOSE i \in active : TRUE].pixels)
        ELSE nullopt

\* GetHigherResolutionThan(pixel_count): the lowest pixel count of the tier above.
GetHigherResolutionThan(pixel_count) == pixel_count + 1

\* EncoderInfo::GetEncoderBitrateLimitsForResolution(frame_size_pixels): the
\* entry of the smallest tabulated resolution that is at least frame_size_pixels.
GetEncoderBitrateLimitsForResolution(resolution_bitrate_limits, frame_size_pixels) ==
    LET fit == {e \in resolution_bitrate_limits :
                    e.frame_size_pixels >= frame_size_pixels}
    IN  IF fit = {} THEN nullopt
        ELSE Some(CHOOSE e \in fit :
                    \A f \in fit : e.frame_size_pixels <= f.frame_size_pixels)

\* SequenceChecker::IsCurrent() for caller c: a detached checker accepts any
\* caller, an attached one only its owner.
IsCurrent(checker, c) == checker = Detached \/ checker = c
\* The checker after a passed check: a detached checker attaches to the caller.
Attach(checker, c) == IF checker = Detached THEN c ELSE checker

(***************************************************************************)
(* IsSimulcast (lines 23-36).  simulcast_layers[0] is read before the size *)
(* is looked at: on an empty vector the read is out of range, and          *)
(* `layer0_active` is then whatever the read produced.                     *)
(***************************************************************************)
Layer0OutOfRange(simulcast_layers) == Len(simulcast_layers) = 0

Layer0Reads(simulcast_layers) ==
    IF Layer0OutOfRange(simulcast_layers) THEN BOOLEAN
    ELSE {simulcast_layers[1].active}

\* Variant: the "only the lowest layer is active" case is not counted.
IsSimulcast_IgnoresLowest(simulcast_layers, layer0_active) ==
    LET num_active_layers ==
            Cardinality({i \in DOMAIN simulcast_layers : simulcast_layers[i].active})
    IN  Len(simulcast_layers) > 1 /\ num_active_layers > 1

IsSimulcast(simulcast_layers, layer0_active) ==
    LET is_simulcast == Len(simulcast_layers) > 1
        is_lowest_layer_active == layer0_active
        num_active_layers ==
            Cardinality({i \in DOMAIN simulcast_layers : simulcast_layers[i].active})
    IN  is_simulcast /\ (num_active_layers > 1 \/ is_lowest_layer_active)

(***************************************************************************)
(* The body of IsAdaptationUpAllowed after the sequence check (lines       *)
(* 62-97), for the stored fields and one outcome of the layer-0 read.      *)
(*   result        the value returned                                      *)
(*   exit          the return statement taken                              *)
(*   read_layer0   IsSimulcast was called                                  *)
(*   frame_size_px current_frame_size_px, nullopt where it was not set     *)
(*   dcheck_ge     RTC_DCHECK_GE of line 92 held (TRUE where not reached)  *)
(***************************************************************************)
Outcome(result, exit, read_layer0, frame_size_px, dcheck_ge) ==
    [result |-> result, exit |-> exit, read_layer0 |-> read_layer0,
     frame_size_px |-> frame_size_px, dcheck_ge |-> dcheck_ge]

\* Lines 93-94: bitrate_bps >= static_cast<uint32_t>(min_start_bitrate_bps).
\* The cast keeps an int that is >= 0 and adds 2^32 to a negative one; the
\* comparison with m + 2^32 is written as bitrate_bps - 2^32 >= m.
IntMax == 2147483647
\* Variant: strict comparison.
BitrateAtLeastMinStart_Strict(bitrate_bps, bitrate_limits) ==
    bitrate_bps > bitrate_limits.min_start_bitrate_bps

BitrateAtLeastMinStart(bitrate_bps, bitrate_limits) ==
    LET m == bitrate_limits.min_start_bitrate_bps
    IN  IF m >= 0 THEN bitrate_bps >= m
        ELSE ((bitrate_bps - IntMax) - IntMax) - 2 >= m

\* Variant: a missing limit entry blocks the increase.
DecideSinglecast_NoLimitBlocks(settings, bitrate_bps) ==
    LET current_frame_size_px == GetSingleActiveLayerPixels(settings.video_codec)
    IN  IF ~has_value(current_frame_size_px)
        THEN Outcome(TRUE, "no_pixels", TRUE, nullopt, TRUE)
        ELSE LET bitrate_limits ==
                    GetEncoderBitrateLimitsForResolution(
                        settings.resolution_bitrate_limits,
                        GetHigherResolutionThan(value(current_frame_size_px)))
             IN  IF has_value(bitrate_limits)
                 THEN Outcome(bitrate_bps >= value(bitrate_limits).min_start_bitrate_bps,
                              "limit", TRUE, current_frame_size_px, TRUE)
                 ELSE Outcome(FALSE, "no_limit", TRUE, current_frame_size_px, TRUE)

\* Variant: the pixel count is taken from the codec's first stream, active or not.
DecideSinglecast_FirstStream(settings, bitrate_bps) ==
    LET current_frame_size_px ==
            IF Len(settings.video_codec) > 0
            THEN Some(settings.video_codec[1].pixels) ELSE nullopt
    IN  IF ~has_value(current_frame_size_px)
        THEN Outcome(TRUE, "no_pixels", TRUE, nullopt, TRUE)
        ELSE LET bitrate_limits ==
                    GetEncoderBitrateLimitsForResolution(
                        settings.resolution_bitrate_limits,
                        GetHigherResolutionThan(value(current_frame_size_px)))
             IN  IF has_value(bitrate_limits)
                 THEN Outcome(bitrate_bps >= value(bitrate_limits).min_start_bitrate_bps,
                              "limit", TRUE, current_frame_size_px, TRUE)
                 ELSE Outcome(TRUE, "no_limit", TRUE, current_frame_size_px, TRUE)

\* Lines 78-95 and the final return: singlecast, bitrate_bps # 0.
DecideSinglecast(settings, bitrate_bps) ==
    LET current_frame_size_px == GetSingleActiveLayerPixels(settings.video_codec)
    IN  IF ~has_value(current_frame_size_px)
        THEN Outcome(TRUE, "no_pixels", TRUE, nullopt, TRUE)
        ELSE LET bitrate_limits ==
                    GetEncoderBitrateLimitsForResolution(
                        settings.resolution_bitrate_limits,
                        GetHigherResolutionThan(value(current_frame_size_px)))
             IN  IF has_value(bitrate_limits)
                 THEN Outcome(BitrateAtLeastMinStart(bitrate_bps, value(bitrate_limits)),
                              "limit", TRUE, current_frame_size_px,
                              value(bitrate_limits).frame_size_pixels
                                  >= value(current_frame_size_px))
                 ELSE Outcome(TRUE, "no_limit", TRUE, current_frame_size_px, TRUE)

\* Variant: a zero bitrate is compared like any other.
DecideWithSettings_NoZeroCheck(settings, target_bitrate, layer0_active) ==
    IF IsSimulcast(settings.simulcast_layers, layer0_active)
    THEN Outcome(TRUE, "simulcast", TRUE, nullopt, TRUE)
    ELSE DecideSinglecast(settings, value_or(target_bitrate, 0))

\* Lines 68-76: settings are stored.
DecideWithSettings(settings, target_bitrate, layer0_active) ==
    LET bitrate_bps == value_or(target_bitrate, 0)
    IN  IF bitrate_bps = 0
        THEN Outcome(TRUE, "no_bitrate", FALSE, nullopt, TRUE)
        ELSE IF IsSimulcast(settings.simulcast_layers, layer0_active)
        THEN Outcome(TRUE, "simulcast", TRUE, nullopt, TRUE)
        ELSE DecideSinglecast(settings, bitrate_bps)

\* Variant: missing settings block the increase.
DecideIncrease_FailsClosed(settings, target_bitrate, layer0_active) ==
    IF ~has_value(settings)
    THEN Outcome(FALSE, "no_settings", FALSE, nullopt, TRUE)
    ELSE DecideWithSettings(value(settings), target_bitrate, layer0_active)

\* Lines 64-66: the resolution increases.
DecideIncrease(settings, target_bitrate, layer0_active) ==
    IF ~has_value(settings)
    THEN Outcome(TRUE, "no_settings", FALSE, nullopt, TRUE)
    ELSE DecideWithSettings(value(settings), target_bitrate, layer0_active)

\* Variant: the bitrate limit is applied to every restriction pair.
Decide_SkipsIncreaseCheck(settings, target_bitrate, layer0_active, restrictions_before, restrictions_after) ==
    DecideIncrease(settings, target_bitrate, layer0_active)

\* Lines 63 and 97.
Decide(settings, target_bitrate, layer0_active, restrictions_before, restrictions_after) ==
    IF DidIncreaseResolution(restrictions_before, restrictions_after)
    THEN DecideIncrease(settings, target_bitrate, layer0_active)
    ELSE Outcome(TRUE, "no_increase", FALSE, nullopt, TRUE)

(***************************************************************************)
(* The record of the latest call.                                          *)
(***************************************************************************)
NoRestrictions == [max_pixels_per_frame |-> nullopt]
NoInputState == [single_active_stream_pixels |-> nullopt]

\* An update call: no value is returned.
UpdateCall(op, c, returned) ==
    [op |-> op, ctx |-> c, returned |-> returned,
     input_state |-> NoInputState, restrictions_before |-> NoRestrictions,
     restrictions_after |-> NoRestrictions,
     result |-> TRUE, exit |-> "void", out_of_range |-> FALSE,
     frame_size_px |-> nullopt]

QueryCall(c, returned, input_state, before, after, o, oob) ==
    [op |-> "IsAdaptationUpAllowed", ctx |-> c, returned |-> returned,
     input_state |-> input_state, restrictions_before |-> before,
     restrictions_after |-> after,
     result |-> o.result, exit |-> o.exit, out_of_range |-> oob,
     frame_size_px |-> o.frame_size_px]

\* BitrateConstraint::BitrateConstraint() (lines 39-43): both fields nullopt,
\* the sequence checker detached.
Init ==
    /\ encoder_settings_ = nullopt
    /\ encoder_target_bitrate_bps_ = nullopt
    /\ sequence_checker_ = Detached
    /\ status = "running"
    /\ last_settings_arg = nullopt
    /\ last_bitrate_arg = nullopt
    /\ call = UpdateCall("BitrateConstraint", 0, TRUE)

\* Variant: the handler does not run the sequence check.
OnEncoderSettingsUpdated_NoRunOn(c, encoder_settings) ==
    /\ status = "running"
    /\ encoder_settings_' = encoder_settings
    /\ last_settings_arg' = encoder_settings
    /\ call' = UpdateCall("OnEncoderSettingsUpdated", c, TRUE)
    /\ UNCHANGED << status, sequence_checker_, encoder_target_bitrate_bps_,
                    last_bitrate_arg >>

\* OnEncoderSettingsUpdated (lines 45-49), called on context c.
OnEncoderSettingsUpdated(c, encoder_settings) ==
    /\ status = "running"
    /\ IF IsCurrent(sequence_checker_, c)
       THEN /\ sequence_checker_' = Attach(sequence_checker_, c)
            /\ encoder_settings_' = encoder_settings
            /\ last_settings_arg' = encoder_settings
            /\ call' = UpdateCall("OnEncoderSettingsUpdated", c, TRUE)
            /\ UNCHANGED status
       ELSE /\ status' = "wrong_sequence"
            /\ call' = UpdateCall("OnEncoderSettingsUpdated", c, FALSE)
            /\ UNCHANGED << sequence_checker_, encoder_settings_, last_settings_arg >>
    /\ UNCHANGED << encoder_target_bitrate_bps_, last_bitrate_arg >>

\* Variant: an absent bitrate is stored as 0.
OnEncoderTargetBitrateUpdated_Normalises(c, encoder_target_bitrate_bps) ==
    /\ status = "running"
    /\ IF IsCurrent(sequence_checker_, c)
       THEN /\ sequence_checker_' = Attach(sequence_checker_, c)
            /\ encoder_target_bitrate_bps_' = Some(value_or(encoder_target_bitrate_bps, 0))
            /\ last_bitrate_arg' = encoder_target_bitrate_bps
            /\ call' = UpdateCall("OnEncoderTargetBitrateUpdated", c, TRUE)
            /\ UNCHANGED status
       ELSE /\ status' = "wrong_sequence"
            /\ call' = UpdateCall("OnEncoderTargetBitrateUpdated", c, FALSE)
            /\ UNCHANGED << sequence_checker_, encoder_target_bitrate_bps_,
                            last_bitrate_arg >>
    /\ UNCHANGED << encoder_settings_, last_settings_arg >>

\* OnEncoderTargetBitrateUpdated (lines 51-55), called on context c.
OnEncoderTargetBitrateUpdated(c, encoder_target_bitrate_bps) ==
    /\ status = "running"
    /\ IF IsCurrent(sequence_checker_, c)
       THEN /\ sequence_checker_' = Attach(sequence_checker_, c)
            /\ encoder_target_bitrate_bps_' = encoder_target_bitrate_bps
            /\ last_bitrate_arg' = encoder_target_bitrate_bps
            /\ call' = UpdateCall("OnEncoderTargetBitrateUpdated", c, TRUE)
            /\ UNCHANGED status
       ELSE /\ status' = "wrong_sequence"
            /\ call' = UpdateCall("OnEncoderTargetBitrateUpdated", c, FALSE)
            /\ UNCHANGED << sequence_checker_, encoder_target_bitrate_bps_,
                            last_bitrate_arg >>
    /\ UNCHANGED << encoder_settings_, last_settings_arg >>

\* How a passed query can end: it returns unless RTC_DCHECK_GE fails; after an
\* out-of-range read of simulcast_layers[0] the process may also have died.
QueryEndings(o, oob) ==
    {IF o.dcheck_ge THEN "running" ELSE "dcheck_failed"}
        \cup (IF oob THEN {"crashed"} ELSE {})

\* IsAdaptationUpAllowed (lines 57-98), called on context c.  A const method:
\* the two fields are left alone.  An out-of-range read of simulcast_layers[0]
\* yields either value of the flag, or ends the process.
IsAdaptationUpAllowed(c, input_state, restrictions_before, restrictions_after) ==
    /\ status = "running"
    /\ UNCHANGED << encoder_settings_, encoder_target_bitrate_bps_,
                    last_settings_arg, last_bitrate_arg >>
    /\ IF ~IsCurrent(sequence_checker_, c)
       THEN /\ status' = "wrong_sequence"
            /\ call' = QueryCall(c, FALSE, input_state, restrictions_before,
                                 restrictions_after,
                                 Outcome(TRUE, "run_on", FALSE, nullopt, TRUE), FALSE)
            /\ UNCHANGED sequence_checker_
       ELSE /\ sequence_checker_' = Attach(sequence_checker_, c)
            /\ \E layer0_active \in
                    IF has_value(encoder_settings_)
                    THEN Layer0Reads(value(encoder_settings_).simulcast_layers)
                    ELSE {FALSE} :
                 LET o == Decide(encoder_settings_, encoder_target_bitrate_bps_,
                                 layer0_active, restrictions_before, restrictions_after)
                     oob == /\ o.read_layer0
                            /\ Layer0OutOfRange(value(encoder_settings_).simulcast_layers)
                 IN  \E ending \in QueryEndings(o, oob) :
                        /\ status' = ending
                        /\ call' = QueryCall(c, ending = "running", input_state,
                                             restrictions_before, restrictions_after,
                                             o, oob)

(***************************************************************************)
(* Spec: the object from its construction on, every entry point called     *)
(* from every context.  The settings pushed are those of an encoder whose  *)
(* codec streams mirror the configured layers (stream i has i pixels) and  *)
(* that tabulates no limits: the layer list is what varies.                *)
(***************************************************************************)
MirrorCodec(simulcast_layers) ==
    [i \in DOMAIN simulcast_layers |->
        [active |-> simulcast_layers[i].active, pixels |-> i]]

SettingsArgs ==
    {[simulcast_layers |-> l, video_codec |-> MirrorCodec(l),
      resolution_bitrate_limits |-> {}] : l \in SeqUpTo(VideoStream, MaxLayers)}

Next ==
    \/ \E c \in Contexts, s \in Optional(SettingsArgs) :
            OnEncoderSettingsUpdated(c, s)
    \/ \E c \in Contexts, b \in Optional(Bitrates) :
            OnEncoderTargetBitrateUpdated(c, b)
    \/ \E c \in Contexts, i \in VideoStreamInputState,
          before \in VideoSourceRestrictions, after \in VideoSourceRestrictions :
            IsAdaptationUpAllowed(c, i, before, after)

Spec == Init /\ [][Next]_vars

(***************************************************************************)
(* SpecQuery: the query as a function of the stored fields and its         *)
(* arguments.  The object starts in any state the two update handlers can  *)
(* leave it in (any settings, any bitrate, owned by the context that made  *)
(* the updates, context 1) and IsAdaptationUpAllowed is called once, from  *)
(* any context, with any arguments.                                        *)
(***************************************************************************)
InitQuery ==
    /\ encoder_settings_ \in Optional(EncoderSettings)
    /\ encoder_target_bitrate_bps_ \in Optional(Bitrates)
    /\ sequence_checker_ = 1
    /\ status = "running"
    /\ last_settings_arg = encoder_settings_
    /\ last_bitrate_arg = encoder_target_bitrate_bps_
    /\ call = UpdateCall("OnEncoderSettingsUpdated", sequence_checker_, TRUE)

NextQuery ==
    /\ call.op # "IsAdaptationUpAllowed"
    /\ \E c \in Contexts, i \in VideoStreamInputState,
          before \in VideoSourceRestrictions, after \in VideoSourceRestrictions :
            IsAdaptationUpAllowed(c, i, before, after)

SpecQuery == InitQuery /\ [][NextQuery]_vars

(***************************************************************************)
(* Vocabulary of the properties.  They speak about the state right after a *)
(* call: `call` holds the call, the two fields are what the call saw       *)
(* (the query leaves them alone).                                          *)
(***************************************************************************)
Queried == call.op = "IsAdaptationUpAllowed"
\* The query was made from the owning context.
PassedCheck == Queried /\ status # "wrong_sequence"
Allowed == call.returned /\ call.result
Increase == DidIncreaseResolution(call.restrictions_before, call.restrictions_after)
HasSettings == has_value(encoder_settings_)
StoredLayers == value(encoder_settings_).simulcast_layers
StoredTable == value(encoder_settings_).resolution_bitrate_limits
EffectiveBitrate == value_or(encoder_target_bitrate_bps_, 0)

ActiveLayers(l) == {i \in DOMAIN l : l[i].active}
\* More than one layer, and more than one active or the lowest active.
SimulcastConfig(l) ==
    Len(l) > 1 /\ (Cardinality(ActiveLayers(l)) > 1 \/ 1 \in ActiveLayers(l))
\* Exactly one layer, or several of which only a non-lowest one is active.
OneLayerOrOnlyHigherActive(l) ==
    \/ Len(l) = 1
    \/ Len(l) > 1 /\ Cardinality(ActiveLayers(l)) = 1 /\ 1 \notin ActiveLayers(l)
SinglecastConfig(l) == Len(l) >= 1 /\ ~SimulcastConfig(l)

\* The current pixel count P of the stored codec, and the table above it.
CurrentPixels == GetSingleActiveLayerPixels(value(encoder_settings_).video_codec)
TiersAbove == {e \in StoredTable : e.frame_size_pixels > value(CurrentPixels)}
NextTier ==
    CHOOSE e \in TiersAbove :
        \A f \in TiersAbove : e.frame_size_pixels <= f.frame_size_pixels
\* Singlecast, P resolvable, a resolution-increasing pair.
SinglecastIncrease ==
    /\ PassedCheck /\ Increase /\ HasSettings
    /\ SinglecastConfig(StoredLayers)
    /\ has_value(CurrentPixels)
\* The stored state in which an increase is refused.
WouldBlock ==
    /\ HasSettings /\ SinglecastConfig(StoredLayers) /\ has_value(CurrentPixels)
    /\ TiersAbove # {}
    /\ EffectiveBitrate > 0
    /\ EffectiveBitrate < NextTier.min_start_bitrate_bps

(***************************************************************************)
(* C1: a query whose restriction pair does not increase the resolution     *)
(* returns true, whatever is stored.                                       *)
(***************************************************************************)
C1_NoIncreaseAllowed == PassedCheck /\ ~Increase => Allowed

\* A non-increasing pair is allowed in a state that refuses an increase.
C1_Witness == PassedCheck /\ ~Increase /\ WouldBlock /\ Allowed

(***************************************************************************)
(* C2 as stated: for an increasing pair in singlecast with pixel count P   *)
(* and a next tier above P with minimum start bitrate M, the query returns *)
(* true iff the effective target bitrate (absent = 0) is >= M.             *)
(***************************************************************************)
C2_Original ==
    SinglecastIncrease /\ TiersAbove # {}
        => /\ call.returned
           /\ call.result <=> (EffectiveBitrate >= NextTier.min_start_bitrate_bps)

(***************************************************************************)
(* C2 amended: in that situation the query returns true iff the effective  *)
(* target bitrate is 0 (absent or 0: unknown) or is >= M.                  *)
(***************************************************************************)
C2_Amended ==
    SinglecastIncrease /\ TiersAbove # {}
        => /\ call.returned
           /\ call.result <=> \/ EffectiveBitrate = 0
                              \/ EffectiveBitrate >= NextTier.min_start_bitrate_bps

\* An increase is refused: a known bitrate below the next tier's M, with a
\* tabulated tier at or below P that is passed over.
C2_Witness ==
    /\ SinglecastIncrease /\ WouldBlock
    /\ \E e \in StoredTable : e.frame_size_pixels <= value(CurrentPixels)
    /\ call.returned /\ ~call.result

C4_NoSettingsAllowed == PassedCheck /\ ~HasSettings /\ Increase => Allowed

\* No settings are stored, a bitrate is known, an increase is asked by the
\* context that made the bitrate update.
C4_Witness ==
    /\ PassedCheck /\ ~HasSettings /\ Increase /\ Allowed
    /\ EffectiveBitrate > 0
    /\ call.ctx = NumContexts

(***************************************************************************)
(* C5: with settings stored, an absent target bitrate and a target bitrate *)
(* of 0 both make every increasing pair allowed, for every layer           *)
(* configuration and every table.                                          *)
(***************************************************************************)
C5_UnknownBitrateAllowed ==
    PassedCheck /\ HasSettings /\ Increase
        /\ encoder_target_bitrate_bps_ \in {nullopt, Some(0)}
        => Allowed /\ call.exit = "no_bitrate"

\* A stored 0 in singlecast with a next tier whose M is above 0.
C5_Witness ==
    /\ SinglecastIncrease /\ TiersAbove # {}
    /\ NextTier.min_start_bitrate_bps > 0
    /\ encoder_target_bitrate_bps_ = Some(0)
    /\ Allowed

(***************************************************************************)
(* C6: for an increasing pair in singlecast with pixel count P, a table    *)
(* without an entry above P makes the query return true for every bitrate. *)
(***************************************************************************)
C6_NoTierAllowed == SinglecastIncrease /\ TiersAbove = {} => Allowed

\* The table has entries, none above P, and the known bitrate is below all of them.
C6_Witness ==
    /\ SinglecastIncrease /\ TiersAbove = {} /\ StoredTable # {}
    /\ EffectiveBitrate > 0
    /\ \A e \in StoredTable : EffectiveBitrate < e.min_start_bitrate_bps
    /\ Allowed

(***************************************************************************)
(* C7: each field equals the argument of the latest update of that field   *)
(* (absent and 0 kept apart); an update replaces its own field and leaves  *)
(* the other alone; a query changes neither; repeating an update changes   *)
(* nothing.                                                                *)
(***************************************************************************)
C7_StoredIsLatest ==
    /\ encoder_settings_ = last_settings_arg
    /\ encoder_target_bitrate_bps_ = last_bitrate_arg

C7_Step ==
    /\ call'.op = "IsAdaptationUpAllowed"
        => UNCHANGED << encoder_settings_, encoder_target_bitrate_bps_ >>
    /\ call'.op = "OnEncoderSettingsUpdated" /\ call'.returned
        => /\ encoder_settings_' = last_settings_arg'
           /\ UNCHANGED encoder_target_bitrate_bps_
           /\ last_settings_arg' = encoder_settings_ => UNCHANGED encoder_settings_
    /\ call'.op = "OnEncoderTargetBitrateUpdated" /\ call'.returned
        => /\ encoder_target_bitrate_bps_' = last_bitrate_arg'
           /\ UNCHANGED encoder_settings_
           /\ last_bitrate_arg' = encoder_target_bitrate_bps_
                => UNCHANGED encoder_target_bitrate_bps_

C7_UpdatesReplace == [] C7_StoredIsLatest /\ [][C7_Step]_vars

\* Settings with the longest layer list and an absent bitrate are stored, and
\* a query has run on them.
C7_Witness ==
    /\ Queried /\ call.returned
    /\ HasSettings /\ Len(StoredLayers) = MaxLayers
    /\ encoder_target_bitrate_bps_ = nullopt
    /\ last_bitrate_arg = nullopt

(***************************************************************************)
(* C8: the constructor leaves the checker detached; the first call, from   *)
(* any context, binds that context without a violation; the owner never    *)
(* changes; a call from the owner passes; a call from another context, and *)
(* nothing else, gives the contract violation.                             *)
(***************************************************************************)
C8_DetachedUntilFirstCall ==
    (sequence_checker_ = Detached) <=> (call.op = "BitrateConstraint")

C8_Step ==
    /\ sequence_checker_ = Detached
        => sequence_checker_' = call'.ctx /\ status' # "wrong_sequence"
    /\ sequence_checker_ # Detached => UNCHANGED sequence_checker_
    /\ status' = "wrong_sequence"
        <=> (sequence_checker_ # Detached /\ call'.ctx # sequence_checker_)

C8_BindOnFirstUse == [] C8_DetachedUntilFirstCall /\ [][C8_Step]_vars

\* The owner is the last context, and a query from the first one was refused.
C8_Witness ==
    /\ status = "wrong_sequence" /\ Queried
    /\ sequence_checker_ = NumContexts /\ call.ctx = 1

(***************************************************************************)
(* C9 as stated: a query from the owning context always returns a boolean, *)
(* without an out-of-range layer access and without failing the assertion  *)
(* on the found entry's frame size.                                        *)
(***************************************************************************)
C9_NeverRaises ==
    PassedCheck => call.returned /\ ~call.out_of_range /\ status = "running"

(***************************************************************************)
(* C10 as stated: the pixel count that selects the tier is the one carried *)
(* by the query's input_state, and when input_state carries none the query *)
(* returns true.                                                           *)
(***************************************************************************)
C10_Original ==
    PassedCheck /\ Increase /\ HasSettings /\ EffectiveBitrate > 0
        /\ SinglecastConfig(StoredLayers)
        => IF has_value(call.input_state.single_active_stream_pixels)
           THEN /\ call.exit \in {"limit", "no_limit"}
                /\ call.frame_size_px = call.input_state.single_active_stream_pixels
           ELSE Allowed /\ call.exit = "no_pixels"

(***************************************************************************)
(* C10 amended: the pixel count that selects the tier is the single active *)
(* stream's of the stored settings' codec, whatever input_state carries;   *)
(* when the codec has no single active stream the query returns true.      *)
(***************************************************************************)
C10_Amended ==
    PassedCheck /\ Increase /\ HasSettings /\ EffectiveBitrate > 0
        /\ SinglecastConfig(StoredLayers)
        => IF has_value(CurrentPixels)
           THEN /\ call.exit \in {"limit", "no_limit"}
                /\ call.frame_size_px = CurrentPixels
           ELSE Allowed /\ call.exit = "no_pixels"

\* The codec's single active stream is its second one, input_state carries
\* another pixel count, and the table entry above the codec's count decides.
C10_Witness ==
    /\ PassedCheck /\ call.exit = "limit"
    /\ call.frame_size_px = Some(2)
    /\ call.input_state.single_active_stream_pixels = Some(1)
    /\ ~value(encoder_settings_).video_codec[1].active

====
